---- MODULE Spec2Model ----
(***************************************************************************)
(* A model of src/main.py: the Data class (numpy.genfromtxt load into a    *)
(* structured array, the unstructured numeric view, the two filters) and   *)
(* the main() script that uses it.                                         *)
(*                                                                         *)
(* Text is modelled character by character: a string is a sequence of      *)
(* one-character strings, a file is a sequence of lines.  An ndarray is a  *)
(* shape (a tuple of axis lengths, <<>> for a 0-d array) plus its elements *)
(* in row-major order.                                                     *)
(***************************************************************************)
EXTENDS Integers, Sequences, FiniteSets, TLC

VARIABLES
    flag,   \* whether --file was given on the command line
    rows,   \* the data rows the file was written from, as fields (ghost)
    disk,   \* what is at the path: whether a file exists, and its lines
    pc,     \* position of the object / of main()
    sdata,  \* Data.sdata
    udata,  \* Data.udata
    call,   \* the last method call and its argument
    ret,    \* what the last call returned or raised
    out     \* main(): the steps started so far, in order

vars == <<flag, rows, disk, pc, sdata, udata, call, ret, out>>

----------------------------------------------------------------------------
(* Bounds of the model *)

MaxRows == 2

(* Program constants *)

skip_header == 1
MaxTagLen == 25
IntDefault == -1

Fields == [ABS |-> "abs", REL |-> "rel", DEL |-> "del", TAG |-> "tag"]

Tags == [PFOO |-> <<"\"", "+", "+", "f", "o", "o", "\"">>,
         NFOO |-> <<"\"", "-", "-", "f", "o", "o", "\"">>,
         PBAR |-> <<"\"", "+", "+", "b", "a", "r", "\"">>,
         NBAR |-> <<"\"", "-", "-", "b", "a", "r", "\"">>]

datatypes == << <<Fields.ABS, "i8">>, <<Fields.REL, "i8">>,
                <<Fields.DEL, "i8">>, <<Fields.TAG, "U25">> >>

delimiter == ","
comments == "#"

FieldNames == {datatypes[i][1] : i \in 1..Len(datatypes)}
NumericNames == <<Fields.ABS, Fields.REL, Fields.DEL>>

----------------------------------------------------------------------------
(* Strings *)

Digits == {"0", "1", "2", "3", "4", "5", "6", "7", "8", "9"}

DigitVal(c) ==
    CASE c = "0" -> 0 [] c = "1" -> 1 [] c = "2" -> 2 [] c = "3" -> 3
      [] c = "4" -> 4 [] c = "5" -> 5 [] c = "6" -> 6 [] c = "7" -> 7
      [] c = "8" -> 8 [] c = "9" -> 9

IsDigits(s) == Len(s) > 0 /\ \A i \in 1..Len(s) : s[i] \in Digits

RECURSIVE DecimalValue(_)
DecimalValue(s) ==
    IF s = <<>> THEN 0
    ELSE 10 * DecimalValue(SubSeq(s, 1, Len(s) - 1)) + DigitVal(s[Len(s)])

Take(s, n) == SubSeq(s, 1, IF Len(s) < n THEN Len(s) ELSE n)

\* str.strip(chars)
RECURSIVE Strip(_, _)
Strip(s, chars) ==
    IF s = <<>> THEN s
    ELSE IF s[1] \in chars THEN Strip(Tail(s), chars)
    ELSE IF s[Len(s)] \in chars THEN Strip(SubSeq(s, 1, Len(s) - 1), chars)
    ELSE s

\* str.split(sep): always at least one piece
RECURSIVE Split(_, _)
Split(s, sep) ==
    IF \E i \in 1..Len(s) : s[i] = sep
    THEN LET i == CHOOSE k \in 1..Len(s) :
                      s[k] = sep /\ \A j \in 1..(k - 1) : s[j] # sep
         IN  <<SubSeq(s, 1, i - 1)>> \o Split(SubSeq(s, i + 1, Len(s)), sep)
    ELSE <<s>>

\* sep.join(fields), how a row of fields is written to a line of the file
RECURSIVE Join(_, _)
Join(fields, sep) ==
    IF fields = <<>> THEN <<>>
    ELSE IF Len(fields) = 1 THEN fields[1]
    ELSE fields[1] \o <<sep>> \o Join(Tail(fields), sep)

RECURSIVE Flatten(_)
Flatten(ss) == IF ss = <<>> THEN <<>> ELSE ss[1] \o Flatten(Tail(ss))

----------------------------------------------------------------------------
(* Arrays and exceptions *)

NoArray == [ok |-> FALSE, err |-> "unset", shape |-> <<>>, recs |-> <<>>]
NoUdata == [shape |-> <<>>, flat |-> <<>>]
NoCall == [op |-> "none", arg |-> {}]

Raise(e) == [ok |-> FALSE, err |-> e, shape |-> <<>>, recs |-> <<>>]
Array(shape, recs) == [ok |-> TRUE, err |-> "", shape |-> shape, recs |-> recs]

\* np.squeeze: drop every axis of length one
squeeze(shape) == SelectSeq(shape, LAMBDA n : n # 1)

----------------------------------------------------------------------------
(* numpy.genfromtxt as Data.__init__ calls it: a structured dtype,         *)
(* delimiter=',', skip_header=1, and the defaults comments='#',            *)
(* autostrip=False, loose=True, invalid_raise=True.                        *)

\* LineSplitter._delimited_splitter: chop off the comment, strip the line,
\* split at the delimiter; a line left empty has no values
split_line(line) ==
    LET nocomment == Split(line, comments)[1]
        stripped == Strip(nocomment, {" ", "\r", "\n"})
    IN  IF stripped = <<>> THEN <<>> ELSE Split(stripped, delimiter)

\* np.int64(text): an optional sign and decimal digits, blanks around them
\* ignored; anything else is a ValueError
np_int64(text) ==
    LET t == Strip(text, {" "})
        signed == t # <<>> /\ t[1] \in {"+", "-"}
        digits == IF signed THEN Tail(t) ELSE t
    IN  IF IsDigits(digits)
        THEN [ok |-> TRUE,
              val |-> IF signed /\ t[1] = "-" THEN 0 - DecimalValue(digits)
                      ELSE DecimalValue(digits)]
        ELSE [ok |-> FALSE, val |-> 0]

\* StringConverter._loose_call of column j: the dtype's conversion, and the
\* converter's default when the conversion raises ValueError.  A text column
\* converts to itself; storing it in a U25 field keeps its first 25 characters.
loose_call(j, value) ==
    IF datatypes[j][2] = "i8"
    THEN LET r == np_int64(value) IN IF r.ok THEN r.val ELSE IntDefault
    ELSE Take(value, MaxTagLen)

genfromtxt(d) ==
    IF ~d.exists THEN Raise("OSError")
    ELSE
    LET body == SubSeq(d.lines, skip_header + 1, Len(d.lines))
        values == [i \in 1..Len(body) |-> split_line(body[i])]
        kept == SelectSeq(values, LAMBDA v : Len(v) # 0)
        nbcols == IF kept = <<>> THEN 0 ELSE Len(kept[1])
        invalid == \E i \in 1..Len(kept) : Len(kept[i]) # nbcols
        nconv == IF nbcols < Len(datatypes) THEN nbcols ELSE Len(datatypes)
        record(v) == [n \in FieldNames |->
                        LET j == CHOOSE k \in 1..Len(datatypes) : datatypes[k][1] = n
                        IN  loose_call(j, v[j])]
    IN  IF invalid THEN Raise("ValueError")
        ELSE IF kept # <<>> /\ nconv # Len(datatypes) THEN Raise("ValueError")
        ELSE Array(squeeze(<<Len(kept)>>),
                   [i \in 1..Len(kept) |-> record(kept[i])])

\* rfn.structured_to_unstructured(sdata[['abs', 'rel', 'del']]): one more
\* axis, of the three numeric fields, after the axes sdata has
structured_to_unstructured(a) ==
    [shape |-> a.shape \o <<Len(NumericNames)>>,
     flat |-> Flatten([i \in 1..Len(a.recs) |->
                          [j \in 1..Len(NumericNames) |-> a.recs[i][NumericNames[j]]]])]

----------------------------------------------------------------------------
(* The methods of Data *)

\* a variant that drops the names the dtype lacks instead of raising
filter_sdata_by_col_lenient(s, names) ==
    Array(s.shape, [i \in 1..Len(s.recs) |->
                       [n \in names \cap FieldNames |-> s.recs[i][n]]])

\* self.sdata[names]: a multi-field index keeps the shape and narrows every
\* element to the named fields; a name the dtype lacks raises KeyError
filter_sdata_by_col(s, names) ==
    IF names \subseteq FieldNames
    THEN Array(s.shape, [i \in 1..Len(s.recs) |-> [n \in names |-> s.recs[i][n]]])
    ELSE Raise("KeyError")

\* np.in1d(ar1, ar2): ar1 is flattened; one boolean per element
in1d(recs, values) == [i \in 1..Len(recs) |-> recs[i][Fields.TAG] \in values]

\* self.sdata[mask] with the one-dimensional mask of in1d: the elements
\* where the mask is set; a 0-d array cannot take a one-dimensional index
filter_sdata_by_tag(s, values) ==
    LET mask == in1d(s.recs, values)
        idx == SelectSeq([i \in 1..Len(s.recs) |-> i], LAMBDA i : mask[i])
    IN  IF Len(s.shape) = 0 THEN Raise("IndexError")
        ELSE Array(<<Len(idx)>>, [k \in 1..Len(idx) |-> s.recs[idx[k]]])

\* udata[:, j] in main(): needs two axes
column(u, j) ==
    IF Len(u.shape) # 2 THEN Raise("IndexError")
    ELSE Array(<<u.shape[1]>>,
               [i \in 1..u.shape[1] |-> u.flat[(i - 1) * u.shape[2] + j]])

----------------------------------------------------------------------------
(* Inputs: files written from rows of fields *)

Header == <<"a", "b", "s", ",", "r", "e", "l", ",", "d", "e", "l", ",", "t", "a", "g">>

S(c) == <<c>>
Free == <<"z", "z">>
Long == [i \in 1..(MaxTagLen + 1) |-> IF i > MaxTagLen THEN "y" ELSE "x"]

RowPool ==
    { <<S("1"), S("2"), S("3"), Tags.PFOO>>,
      <<S("4"), S("5"), S("6"), Tags.NBAR>>,
      <<<<"-", "7">>, S("8"), <<"1", "0">>, Free>>,    \* tag outside the vocabulary
      <<S("1"), S("2"), S("3")>>,                      \* the tag is missing
      <<S("1"), S("2"), S("3"), Free, Free>>,          \* one field too many
      <<S("x"), S("2"), S("3"), Tags.PFOO>>,           \* abs is not an integer
      <<S("1"), S("2"), S("3"), Long>>,                \* a tag of 26 characters
      <<S("1"), S("2"), S("3"), <<"z", "#", "z">>>>,   \* a tag holding the comment character
      <<S("1"), S("2"), S("3"), <<"z", " ">>>>,        \* a tag ending in a blank
      <<>> }                                           \* a blank line

RowSeqs == UNION {[1..n -> RowPool] : n \in 0..MaxRows}

\* the file a sequence of rows is written to: the header line, then a line per row
FileOf(rs) == <<Header>> \o [i \in 1..Len(rs) |-> Join(rs[i], delimiter)]

\* what can be at the path: the file of some rows, or nothing
Disks ==
    {[rows |-> rs, disk |-> [exists |-> TRUE, lines |-> FileOf(rs)]] : rs \in RowSeqs}
    \cup {[rows |-> <<>>, disk |-> [exists |-> FALSE, lines |-> <<>>]]}

ColArgs == SUBSET (FieldNames \cup {"nonexistent"}) \ {{}}
TagArgs == SUBSET {Tags.PFOO, Tags.NFOO, Free, S("z"), Take(Long, MaxTagLen)}

\* "...".format(self.sdata, self.udata)
format(s, u) == <<"Structured Data:", s.recs, "Unstructured Data:", u.flat>>

----------------------------------------------------------------------------
(* The Data object: construction, then any calls of its methods *)

Init ==
    /\ flag = TRUE
    /\ \E d \in Disks : rows = d.rows /\ disk = d.disk
    /\ pc = "new"
    /\ sdata = NoArray
    /\ udata = NoUdata
    /\ call = NoCall
    /\ ret = NoArray
    /\ out = <<>>

\* Data.__init__
Construct ==
    /\ pc = "new"
    /\ LET r == genfromtxt(disk)
       IN  IF r.ok
           THEN /\ sdata' = r
                /\ udata' = structured_to_unstructured(r)
                /\ pc' = "ready"
                /\ ret' = NoArray
           ELSE /\ pc' = "failed"
                /\ ret' = r
                /\ UNCHANGED <<sdata, udata>>
    /\ call' = [op |-> "__init__", arg |-> {}]
    /\ UNCHANGED <<flag, rows, disk, out>>

\* Data.__str__
Str ==
    /\ pc = "ready"
    /\ call' = [op |-> "__str__", arg |-> {}]
    /\ ret' = Array(<<>>, format(sdata, udata))
    /\ UNCHANGED <<flag, rows, disk, pc, sdata, udata, out>>

\* Data.filter_sdata_by_col
FilterByCol ==
    /\ pc = "ready"
    /\ \E names \in ColArgs :
          /\ call' = [op |-> "filter_sdata_by_col", arg |-> names]
          /\ ret' = filter_sdata_by_col(sdata, names)
    /\ UNCHANGED <<flag, rows, disk, pc, sdata, udata, out>>

\* a variant that filters in place: self.sdata = self.sdata[mask]
FilterByTagInPlace ==
    /\ pc = "ready"
    /\ \E values \in TagArgs :
          LET r == filter_sdata_by_tag(sdata, values)
          IN  /\ call' = [op |-> "filter_sdata_by_tag", arg |-> values]
              /\ ret' = r
              /\ sdata' = IF r.ok THEN r ELSE sdata
    /\ UNCHANGED <<flag, rows, disk, pc, udata, out>>

\* Data.filter_sdata_by_tag
FilterByTag ==
    /\ pc = "ready"
    /\ \E values \in TagArgs :
          /\ call' = [op |-> "filter_sdata_by_tag", arg |-> values]
          /\ ret' = filter_sdata_by_tag(sdata, values)
    /\ UNCHANGED <<flag, rows, disk, pc, sdata, udata, out>>

Next == Construct \/ Str \/ FilterByCol \/ FilterByTag

Spec == Init /\ [][Next]_vars

----------------------------------------------------------------------------
(* main(): one pass; an exception anywhere ends the process *)

Order == <<"parse_args", "Data", "print_data", "print_col", "print_tag",
           "line_panel", "scatter_panel", "show">>

InitMain ==
    /\ flag \in BOOLEAN
    /\ \E d \in Disks : rows = d.rows /\ disk = d.disk
    /\ pc = "parse_args"
    /\ sdata = NoArray
    /\ udata = NoUdata
    /\ call = NoCall
    /\ ret = NoArray
    /\ out = <<>>

\* a variant that swallows the exception and carries on
StepNoAbort(r, nxt) ==
    /\ out' = Append(out, pc)
    /\ ret' = r
    /\ pc' = nxt

\* the step at pc has run and returned r: go on to nxt, or die of r
Step(r, nxt) ==
    /\ out' = Append(out, pc)
    /\ ret' = r
    /\ pc' = IF r.ok THEN nxt ELSE "aborted"

\* parser.parse_args(): --file is required
MainParseArgs ==
    /\ pc = "parse_args"
    /\ Step(IF flag THEN Array(<<>>, <<>>) ELSE Raise("SystemExit"), "Data")
    /\ UNCHANGED <<flag, rows, disk, sdata, udata, call>>

\* DataObject = Data(args.file)
MainLoad ==
    /\ pc = "Data"
    /\ LET r == genfromtxt(disk)
       IN  /\ Step(r, "print_data")
           /\ IF r.ok
              THEN sdata' = r /\ udata' = structured_to_unstructured(r)
              ELSE UNCHANGED <<sdata, udata>>
    /\ call' = [op |-> "__init__", arg |-> {}]
    /\ UNCHANGED <<flag, rows, disk>>

\* print(DataObject)
MainPrintData ==
    /\ pc = "print_data"
    /\ Step(Array(<<>>, format(sdata, udata)), "print_col")
    /\ call' = [op |-> "__str__", arg |-> {}]
    /\ UNCHANGED <<flag, rows, disk, sdata, udata>>

\* print(... DataObject.filter_sdata_by_col([Fields.ABS.value]))
MainPrintCol ==
    /\ pc = "print_col"
    /\ Step(filter_sdata_by_col(sdata, {Fields.ABS}), "print_tag")
    /\ call' = [op |-> "filter_sdata_by_col", arg |-> {Fields.ABS}]
    /\ UNCHANGED <<flag, rows, disk, sdata, udata>>

\* print(... DataObject.filter_sdata_by_tag([Tags.PFOO.value, Tags.NFOO.value]))
MainPrintTag ==
    /\ pc = "print_tag"
    /\ Step(filter_sdata_by_tag(sdata, {Tags.PFOO, Tags.NFOO}), "line_panel")
    /\ call' = [op |-> "filter_sdata_by_tag", arg |-> {Tags.PFOO, Tags.NFOO}]
    /\ UNCHANGED <<flag, rows, disk, sdata, udata>>

\* the first of the columns js that cannot be taken, else the last one
columns(u, js) ==
    IF \E k \in 1..Len(js) : ~column(u, js[k]).ok
    THEN column(u, js[CHOOSE k \in 1..Len(js) : ~column(u, js[k]).ok])
    ELSE column(u, js[Len(js)])

\* ax1: plot_line of udata[:,0] against udata[:,1], then against udata[:,2]
MainLinePanel ==
    /\ pc = "line_panel"
    /\ Step(columns(udata, <<1, 2, 1, 3>>), "scatter_panel")
    /\ UNCHANGED <<flag, rows, disk, sdata, udata, call>>

\* ax2: plot_scatter of the same columns, coloured by udata[:,0]
MainScatterPanel ==
    /\ pc = "scatter_panel"
    /\ Step(columns(udata, <<1, 2, 1, 1, 3, 1>>), "show")
    /\ UNCHANGED <<flag, rows, disk, sdata, udata, call>>

\* plt.show(), then main() returns
MainShow ==
    /\ pc = "show"
    /\ Step(Array(<<>>, <<>>), "done")
    /\ UNCHANGED <<flag, rows, disk, sdata, udata, call>>

NextMain ==
    \/ MainParseArgs \/ MainLoad \/ MainPrintData \/ MainPrintCol
    \/ MainPrintTag \/ MainLinePanel \/ MainScatterPanel \/ MainShow

SpecMain == InitMain /\ [][NextMain]_vars

----------------------------------------------------------------------------
(* Vocabulary of the properties *)

\* a decimal integer literal, and the integer it denotes
IsIntLiteral(f) ==
    IF f # <<>> /\ f[1] = "-" THEN IsDigits(Tail(f)) ELSE IsDigits(f)
IntOf(f) ==
    IF f[1] = "-" THEN 0 - DecimalValue(Tail(f)) ELSE DecimalValue(f)

\* a tag of at most 25 characters none of which the file format gives a meaning
PlainTag(t) ==
    /\ Len(t) <= MaxTagLen
    /\ \A i \in 1..Len(t) : t[i] \notin {delimiter, comments, " ", "\r", "\n"}

NumericOk(r) == \A j \in 1..3 : IsIntLiteral(r[j])
ValidRow(r) == Len(r) = 4 /\ NumericOk(r) /\ PlainTag(r[4])
RecordOf(r) == [n \in FieldNames |->
                   CASE n = Fields.ABS -> IntOf(r[1])
                     [] n = Fields.REL -> IntOf(r[2])
                     [] n = Fields.DEL -> IntOf(r[3])
                     [] n = Fields.TAG -> r[4]]

\* the data lines of the file, each as its comma-separated fields
DataLines == [i \in 1..(Len(disk.lines) - 1) |-> Split(disk.lines[i + 1], delimiter)]

IsPrefix(s, t) == Len(s) <= Len(t) /\ s = SubSeq(t, 1, Len(s))

Constructed == pc # "new" /\ call.op # "none"
AllValid == disk.exists /\ \A i \in 1..Len(rows) : ValidRow(rows[i])
Blank == << <<>> >>
N == Len(sdata.recs)

----------------------------------------------------------------------------
(* Properties *)

\* C1: a file of a header line and N valid data rows loads as a dataset of
\* exactly N records, the i-th record equal to the i-th data row.
C1_NRecordsInFileOrder ==
    (Constructed /\ AllValid)
        => /\ pc = "ready"
           /\ sdata.shape = <<Len(rows)>>
           /\ sdata.recs = [i \in 1..Len(rows) |-> RecordOf(rows[i])]

\* C2: after a successful construction udata has one row per record of sdata
\* and three columns, and its i-th row is (abs, rel, del) of the i-th record.
\* (Stated here for the files all of whose rows are valid.)
C2_NumericView ==
    (pc = "ready" /\ AllValid)
        => /\ udata.shape = <<N, 3>>
           /\ Len(udata.flat) = 3 * N
           /\ \A i \in 1..N :
                 SubSeq(udata.flat, 3 * (i - 1) + 1, 3 * i)
                    = <<sdata.recs[i][Fields.ABS], sdata.recs[i][Fields.REL],
                        sdata.recs[i][Fields.DEL]>>

\* C3: filter_sdata_by_tag(values) returns exactly the records whose tag is a
\* member of values, whole and in row order; no match gives an empty result,
\* never an error.  (Stated here for the files all of whose rows are valid.)
C3_FilterByTag ==
    (pc = "ready" /\ AllValid /\ call.op = "filter_sdata_by_tag")
        => /\ ret.ok
           /\ ret.recs = SelectSeq(sdata.recs, LAMBDA r : r[Fields.TAG] \in call.arg)
           /\ ret.shape = <<Len(ret.recs)>>

\* C4: a data line that does not have exactly four comma-separated fields
\* makes the construction fail as a whole.  (Stated here for the lines that
\* are not blank.)
C4_WrongFieldCountFails ==
    (Constructed /\ disk.exists
       /\ \E i \in 1..Len(DataLines) : DataLines[i] # Blank /\ Len(DataLines[i]) # 4)
        => pc = "failed" /\ ~ret.ok /\ sdata = NoArray /\ udata = NoUdata

\* C5: a data line of four fields one of whose numeric fields is not an
\* integer makes the construction fail; no value is substituted.
C5_NonIntegerFails ==
    (Constructed /\ disk.exists
       /\ \E i \in 1..Len(DataLines) : Len(DataLines[i]) = 4 /\ ~NumericOk(DataLines[i]))
        => pc = "failed" /\ ~ret.ok

\* C6: filter_sdata_by_col(names), names a non-empty set of field names,
\* returns N entries in row order, each the named fields of its row.
\* (Stated here for the files all of whose rows are valid.)
C6_FilterByCol ==
    (pc = "ready" /\ AllValid /\ call.op = "filter_sdata_by_col"
       /\ call.arg # {} /\ call.arg \subseteq FieldNames)
        => /\ ret.ok
           /\ ret.shape = <<N>>
           /\ ret.recs = [i \in 1..N |-> [n \in call.arg |-> sdata.recs[i][n]]]

\* C7: filter_sdata_by_col with a name outside {abs, rel, del, tag} raises
\* instead of returning a projection, and leaves the dataset as it was.
C7_UnknownFieldRaises ==
    [][(call'.op = "filter_sdata_by_col" /\ ~(call'.arg \subseteq FieldNames))
          => (~ret'.ok /\ ret'.err = "KeyError" /\ sdata' = sdata /\ udata' = udata)]_vars

C7_Witness ==
    /\ pc = "ready" /\ N = 2
    /\ call.op = "filter_sdata_by_col" /\ call.arg = {Fields.ABS, "nonexistent"}
    /\ ret.err = "KeyError"

\* C8: once constructed, no call of filter_sdata_by_col, filter_sdata_by_tag
\* or __str__, succeeding or failing, changes sdata or udata.
C8_Immutable ==
    [][pc = "ready" => (pc' = "ready" /\ sdata' = sdata /\ udata' = udata)]_vars

C8_Witness ==
    /\ pc = "ready" /\ N = 2
    /\ call.op = "filter_sdata_by_tag" /\ ret.ok /\ Len(ret.recs) = 1

\* C9: main() runs its steps once each in the fixed order; when --file is
\* absent or the load fails, nothing after that step is ever started.
C9_OnePassFatalErrors ==
    /\ IsPrefix(out, Order)
    /\ pc \notin {"aborted", "done"} => pc = Order[Len(out) + 1]
    /\ pc = "done" => out = Order
    /\ pc = "aborted" => ~ret.ok
    /\ (~flag /\ out # <<>>) => (pc = "aborted" /\ out = <<"parse_args">>)
    /\ (flag /\ ~genfromtxt(disk).ok /\ Len(out) >= 2)
          => (pc = "aborted" /\ out = <<"parse_args", "Data">>)

C9_Witness ==
    /\ pc = "aborted" /\ out = <<"parse_args", "Data">>
    /\ ret.err = "ValueError" /\ Len(rows) = 2

\* C10: a row with any tag loads, and the stored tag is the source tag, cut
\* to its first 25 characters when it is longer.
C10_TagVerbatimUpTo25 ==
    (Constructed /\ disk.exists
       /\ \A i \in 1..Len(rows) : Len(rows[i]) = 4 /\ NumericOk(rows[i]))
        => /\ pc = "ready"
           /\ N = Len(rows)
           /\ \A i \in 1..N : sdata.recs[i][Fields.TAG] = Take(rows[i][4], MaxTagLen)

====
